---- MODULE Spec2Model ----
(***************************************************************************)
(* OpenRouter language-model provider: the credential state machine of     *)
(* crates/language_models/src/provider/openrouter.rs.                      *)
(*                                                                         *)
(* State::authenticate, State::set_api_key and State::reset_api_key each   *)
(* run a synchronous prologue (guard, capture of the endpoint URL, spawn)  *)
(* and then an asynchronous task on the foreground executor that awaits    *)
(* one credentials-provider request and finally updates the State entity.  *)
(* Every such task is modelled with its position:                          *)
(*   "spawned"   the task exists, its body has not run yet                 *)
(*   "awaiting"  the body issued its store request and is suspended        *)
(*   "responded" the store answered, the continuation has not run yet      *)
(*   "done"      the task has produced its result                          *)
(***************************************************************************)
EXTENDS Integers, Sequences, FiniteSets, TLC

\* ------------------------------------------------------------------ bounds
MaxOps == 2
MaxReadyCalls == 2
MaxSettingsChanges == 1
MaxCallers == 6
MaxViewEvents == 2

\* ------------------------------------------------------- values and Option
None == <<>>
Some(x) == <<x>>
IsSome(o) == o # None
Unwrap(o) == o[1]

\* Strings are sequences of Unicode scalar values.
K1 == <<107>>
K2 == <<233>>
Secrets == {K1, K2}

Urls == {"u1", "u2"}

\* ------------------------------------------------ String <-> UTF-8 bytes
EncodeChar(c) ==
    IF c < 128 THEN <<c>>
    ELSE IF c < 2048 THEN <<192 + (c \div 64), 128 + (c % 64)>>
    ELSE IF c < 65536
         THEN <<224 + (c \div 4096), 128 + ((c \div 64) % 64), 128 + (c % 64)>>
    ELSE <<240 + (c \div 262144), 128 + ((c \div 4096) % 64),
           128 + ((c \div 64) % 64), 128 + (c % 64)>>

RECURSIVE as_bytes(_)
as_bytes(s) == IF s = <<>> THEN <<>> ELSE EncodeChar(Head(s)) \o as_bytes(Tail(s))

Utf8Width(b) ==
    IF b < 128 THEN 1
    ELSE IF b \in 194..223 THEN 2
    ELSE IF b \in 224..239 THEN 3
    ELSE IF b \in 240..244 THEN 4
    ELSE 0

IsContinuation(b) == b \in 128..191

SecondByteOk(first, second) ==
    CASE first = 224 -> second \in 160..191
      [] first = 237 -> second \in 128..159
      [] first = 240 -> second \in 144..191
      [] first = 244 -> second \in 128..143
      [] OTHER -> IsContinuation(second)

Utf8SequenceOk(b, w) ==
    /\ w > 0
    /\ Len(b) >= w
    /\ w >= 2 => SecondByteOk(b[1], b[2])
    /\ \A i \in 3..w : IsContinuation(b[i])

Utf8Scalar(b, w) ==
    CASE w = 1 -> b[1]
      [] w = 2 -> (b[1] - 192) * 64 + (b[2] - 128)
      [] w = 3 -> (b[1] - 224) * 4096 + (b[2] - 128) * 64 + (b[3] - 128)
      [] OTHER -> (b[1] - 240) * 262144 + (b[2] - 128) * 4096
                  + (b[3] - 128) * 64 + (b[4] - 128)

RECURSIVE Utf8Decode(_, _)
Utf8Decode(b, acc) ==
    IF b = <<>> THEN Some(acc)
    ELSE LET w == Utf8Width(b[1])
         IN  IF Utf8SequenceOk(b, w)
             THEN Utf8Decode(SubSeq(b, w + 1, Len(b)), Append(acc, Utf8Scalar(b, w)))
             ELSE None

\* String::from_utf8: Some(text) for valid UTF-8, None for a decoding error.
from_utf8(bytes) == Utf8Decode(bytes, <<>>)

\* --------------------------------------------------------------- variables
VARIABLES
    env,             \* value of OPENROUTER_API_KEY in the process environment
    api_url,         \* AllLanguageModelSettings.openrouter.api_url
    state,           \* the State entity: api_key, api_key_from_env
    store,           \* credentials provider: url -> Option (username, password)
    tasks,           \* the tasks spawned so far, in the order of their calls
    numCalls,        \* how many tasks have been spawned
    readyCalls,      \* the results of the calls that returned Task::ready(..)
    notifications,   \* cx.notify() calls on the State entity
    settingsChanges, \* SettingsStore changes observed so far
    envReads,        \* std::env::var calls made so far
    lastWriter,      \* the task whose update closure ran most recently (0: none)
    view,            \* the ConfigurationView entity
    limiter          \* request_limiter of the model handle and its callers

vars == <<env, api_url, state, store, tasks, numCalls, readyCalls,
          notifications, settingsChanges, envReads, lastWriter, view, limiter>>

TaskIds == 1..MaxOps

NoRequest == [op |-> "none", key |-> "", username |-> "", password |-> <<>>]
NoResponse == [tag |-> "none", val |-> None]

IdleTask ==
    [kind |-> "none", pc |-> "idle", arg |-> None, url |-> "",
     req |-> NoRequest, resp |-> NoResponse, result |-> "pending",
     quiet |-> FALSE]

InFlight(t) == tasks[t].pc \in {"spawned", "awaiting", "responded"}
Done(t) == tasks[t].pc = "done"

\* ------------------------------------------------------------------- State
\* Mutant: the guard never sees the key.
is_authenticated_never(st) == FALSE

is_authenticated(st) == IsSome(st.api_key)

\* Mutant: the key is cleared, the origin flag is left as it was.
ResetUpdate_KeepsOrigin(st) == [st EXCEPT !.api_key = None]

ResetUpdate(st) == [api_key |-> None, api_key_from_env |-> FALSE]

\* Mutant: a key that is already present is kept.
SetUpdate_KeepsExisting(st, api_key) ==
    IF IsSome(st.api_key) THEN st ELSE [st EXCEPT !.api_key = Some(api_key)]

SetUpdate(st, api_key) == [st EXCEPT !.api_key = Some(api_key)]

\* Mutant: the origin flag is assigned, the key is not.
AuthenticateUpdate_FlagOnly(st, api_key, from_env) ==
    [st EXCEPT !.api_key_from_env = from_env]

AuthenticateUpdate(st, api_key, from_env) ==
    [api_key |-> Some(api_key), api_key_from_env |-> from_env]

\* ------------------------------------------------------------ construction
StoredKey(bytes) == Some([username |-> "Bearer", password |-> bytes])

\* What the keychain may hold when the provider is constructed: nothing, a
\* key saved by an earlier run, or bytes that are not UTF-8.
InitialEntries == {None, StoredKey(as_bytes(K2)), StoredKey(<<195>>)}

\* No configuration view has been opened.
NoView ==
    [pc |-> "absent", load_credentials_task |-> None, awaited |-> 0,
     text |-> <<>>, pending |-> <<>>, confirms |-> 0, resets |-> 0, logged |-> 0]

\* RateLimiter::new(4) in default_model.
Capacity_Five == 4 + 1

Capacity == 4

CallerIds == 1..MaxCallers

\* A caller of acquire(): queued is its place in the queue when it had to
\* wait, 0 when it never waited.
IdleCaller == [pc |-> "idle", queued |-> 0]

\* A fresh model handle: no permit is out, nobody waits, and
\* stream_completion has not been called.
NoLimiter ==
    [in_flight |-> 0, waiters |-> <<>>, stream_calls |-> 0, panicked |-> FALSE,
     panic_in |-> "",
     callers |-> [c \in CallerIds |-> IdleCaller]]

CredentialInit ==
    /\ env \in {None, Some(K1)}
    /\ api_url = "u1"
    /\ state = [api_key |-> None, api_key_from_env |-> FALSE]
    /\ store \in {[u \in Urls |-> IF u = api_url THEN e ELSE None] :
                     e \in InitialEntries}
    /\ tasks = [t \in TaskIds |-> IdleTask]
    /\ numCalls = 0
    /\ readyCalls = <<>>
    /\ notifications = 0
    /\ settingsChanges = 0
    /\ envReads = 0
    /\ lastWriter = 0

Init ==
    /\ CredentialInit
    /\ view = NoView
    /\ limiter = NoLimiter

\* ---------------------------------------------- synchronous part of a call
\* cx.spawn(..): the task captures the endpoint URL read by the caller.
NewTask(kind, arg) ==
    [IdleTask EXCEPT !.kind = kind, !.pc = "spawned", !.arg = arg,
                     !.url = api_url,
                     !.quiet = (\A u \in 1..numCalls : Done(u))]

Spawn(kind, arg) ==
    /\ numCalls < MaxOps
    /\ numCalls' = numCalls + 1
    /\ tasks' = [tasks EXCEPT ![numCalls + 1] = NewTask(kind, arg)]

\* State::authenticate up to the return of its task. If already
\* authenticated the call returns Task::ready(Ok(())): nothing is spawned,
\* read or written.
authenticate ==
    IF is_authenticated(state)
    THEN /\ Len(readyCalls) < MaxReadyCalls
         /\ readyCalls' = Append(readyCalls, "Ok")
         /\ UNCHANGED <<limiter, env, api_url, state, store, tasks, numCalls,
                        notifications, settingsChanges, envReads, lastWriter>>
    ELSE /\ Spawn("authenticate", None)
         /\ UNCHANGED <<limiter, env, api_url, state, store, readyCalls, notifications,
                        settingsChanges, envReads, lastWriter>>

\* State::set_api_key up to the return of its task.
set_api_key(api_key) ==
    /\ Spawn("set", Some(api_key))
    /\ UNCHANGED <<limiter, env, api_url, state, store, readyCalls, notifications,
                   settingsChanges, envReads, lastWriter>>

\* State::reset_api_key up to the return of its task.
reset_api_key ==
    /\ Spawn("reset", None)
    /\ UNCHANGED <<limiter, env, api_url, state, store, readyCalls, notifications,
                   settingsChanges, envReads, lastWriter>>

\* Calls made through the provider.
AuthenticateCall == authenticate /\ UNCHANGED view

SetCall(api_key) == set_api_key(api_key) /\ UNCHANGED view

ResetCall == reset_api_key /\ UNCHANGED view

\* ------------------------------------------- a task's body up to its await
Request(op, key, username, password) ==
    [op |-> op, key |-> key, username |-> username, password |-> password]

Await(t, req) == [tasks EXCEPT ![t].pc = "awaiting", ![t].req = req]

Finish(t, result) == [tasks EXCEPT ![t].pc = "done", ![t].result = result]

\* Mutant: the lookup names a variable that is never set.
EnvVar_NotPresent == None

\* std::env::var(OPENROUTER_API_KEY_VAR)
EnvVar == env

AuthenticateStart(t) ==
    /\ tasks[t].kind = "authenticate"
    /\ tasks[t].pc = "spawned"
    /\ envReads' = envReads + 1
    /\ IF IsSome(EnvVar)
       THEN /\ state' = AuthenticateUpdate(state, Unwrap(EnvVar), TRUE)
            /\ notifications' = notifications + 1
            /\ tasks' = Finish(t, "Ok")
            /\ lastWriter' = t
       ELSE /\ tasks' = Await(t, Request("read", tasks[t].url, "", <<>>))
            /\ UNCHANGED <<state, notifications, lastWriter>>
    /\ UNCHANGED <<view, limiter, env, api_url, store, numCalls, readyCalls, settingsChanges>>

SetStart(t) ==
    /\ tasks[t].kind = "set"
    /\ tasks[t].pc = "spawned"
    /\ tasks' = Await(t, Request("write", tasks[t].url, "Bearer",
                                 as_bytes(Unwrap(tasks[t].arg))))
    /\ UNCHANGED <<view, limiter, env, api_url, state, store, numCalls, readyCalls, notifications,
                   settingsChanges, envReads, lastWriter>>

ResetStart(t) ==
    /\ tasks[t].kind = "reset"
    /\ tasks[t].pc = "spawned"
    /\ tasks' = Await(t, Request("delete", tasks[t].url, "", <<>>))
    /\ UNCHANGED <<view, limiter, env, api_url, state, store, numCalls, readyCalls, notifications,
                   settingsChanges, envReads, lastWriter>>

\* --------------------------------------------------- credentials provider
Respond(t, tag, val) ==
    [tasks EXCEPT ![t].pc = "responded", ![t].resp = [tag |-> tag, val |-> val]]

StoreRead(t) ==
    /\ tasks[t].pc = "awaiting"
    /\ tasks[t].req.op = "read"
    /\ tasks' = Respond(t, "ok", store[tasks[t].req.key])
    /\ UNCHANGED <<view, limiter, env, api_url, state, store, numCalls, readyCalls, notifications,
                   settingsChanges, envReads, lastWriter>>

StoreWrite(t) ==
    /\ tasks[t].pc = "awaiting"
    /\ tasks[t].req.op = "write"
    /\ store' = [store EXCEPT ![tasks[t].req.key] =
                     Some([username |-> tasks[t].req.username,
                           password |-> tasks[t].req.password])]
    /\ tasks' = Respond(t, "ok", None)
    /\ UNCHANGED <<view, limiter, env, api_url, state, numCalls, readyCalls, notifications,
                   settingsChanges, envReads, lastWriter>>

StoreDelete(t) ==
    /\ tasks[t].pc = "awaiting"
    /\ tasks[t].req.op = "delete"
    /\ store' = [store EXCEPT ![tasks[t].req.key] = None]
    /\ tasks' = Respond(t, "ok", None)
    /\ UNCHANGED <<view, limiter, env, api_url, state, numCalls, readyCalls, notifications,
                   settingsChanges, envReads, lastWriter>>

\* Any request may fail (keychain locked, I/O error); a failed request
\* leaves the stored entry as it was.
StoreFail(t) ==
    /\ tasks[t].pc = "awaiting"
    /\ tasks' = Respond(t, "err", None)
    /\ UNCHANGED <<view, limiter, env, api_url, state, store, numCalls, readyCalls, notifications,
                   settingsChanges, envReads, lastWriter>>

\* ------------------------------------------- a task's body after its await
\* The AuthenticateError a caller receives for a failure that reaches it as
\* a general error: "store" is the error of read_credentials propagated by
\* `?`, "utf8" the String::from_utf8 error wrapped with the context
\* "invalid API key".
AuthenticateErrorFrom(cause) ==
    IF cause = "store" THEN "StoreUnavailable" ELSE "Malformed"

\* Mutant: a missing entry is taken for an empty key (unwrap_or_default).
ResolveFromStore_AbsentIsEmptyKey(resp) ==
    IF resp.tag = "err"
    THEN [error |-> AuthenticateErrorFrom("store"), key |-> None]
    ELSE IF resp.val = None
    THEN [error |-> "Ok", key |-> Some(<<>>)]
    ELSE IF from_utf8(Unwrap(resp.val).password) = None
    THEN [error |-> AuthenticateErrorFrom("utf8"), key |-> None]
    ELSE [error |-> "Ok", key |-> from_utf8(Unwrap(resp.val).password)]

\* Mutant: the error of read_credentials is dropped (.ok().flatten()), so
\* a failing store looks like a missing entry.
ResolveFromStore_ErrorIsAbsent(resp) ==
    IF resp.tag = "err" \/ resp.val = None
    THEN [error |-> "CredentialsNotFound", key |-> None]
    ELSE IF from_utf8(Unwrap(resp.val).password) = None
    THEN [error |-> AuthenticateErrorFrom("utf8"), key |-> None]
    ELSE [error |-> "Ok", key |-> from_utf8(Unwrap(resp.val).password)]

\* The value of the or_else branch: read_credentials(..).await?
\* .ok_or(CredentialsNotFound).and_then(String::from_utf8 ..).
ResolveFromStore(resp) ==
    IF resp.tag = "err"
    THEN [error |-> AuthenticateErrorFrom("store"), key |-> None]
    ELSE IF resp.val = None
    THEN [error |-> "CredentialsNotFound", key |-> None]
    ELSE IF from_utf8(Unwrap(resp.val).password) = None
    THEN [error |-> AuthenticateErrorFrom("utf8"), key |-> None]
    ELSE [error |-> "Ok", key |-> from_utf8(Unwrap(resp.val).password)]

AuthenticateResume(t) ==
    /\ tasks[t].kind = "authenticate"
    /\ tasks[t].pc = "responded"
    /\ LET r == ResolveFromStore(tasks[t].resp)
       IN  IF r.error = "Ok"
           THEN /\ state' = AuthenticateUpdate(state, Unwrap(r.key), FALSE)
                /\ notifications' = notifications + 1
                /\ tasks' = Finish(t, "Ok")
                /\ lastWriter' = t
           ELSE /\ tasks' = Finish(t, r.error)
                /\ UNCHANGED <<state, notifications, lastWriter>>
    /\ UNCHANGED <<view, limiter, env, api_url, store, numCalls, readyCalls, settingsChanges, envReads>>

\* Mutant: the error of write_credentials is propagated with `?`, so the
\* update closure is skipped when the write failed.
SetResume_PropagatesWriteError(t) ==
    /\ tasks[t].kind = "set"
    /\ tasks[t].pc = "responded"
    /\ IF tasks[t].resp.tag = "err"
       THEN /\ tasks' = Finish(t, "Err")
            /\ UNCHANGED <<state, notifications, lastWriter>>
       ELSE /\ state' = [state EXCEPT !.api_key = tasks[t].arg]
            /\ notifications' = notifications + 1
            /\ tasks' = Finish(t, "Ok")
            /\ lastWriter' = t
    /\ UNCHANGED <<view, limiter, env, api_url, store, numCalls, readyCalls, settingsChanges, envReads>>

\* .log_err(): the error of the store request is logged and dropped.
SetResume(t) ==
    /\ tasks[t].kind = "set"
    /\ tasks[t].pc = "responded"
    /\ state' = SetUpdate(state, Unwrap(tasks[t].arg))
    /\ notifications' = notifications + 1
    /\ tasks' = Finish(t, "Ok")
    /\ lastWriter' = t
    /\ UNCHANGED <<view, limiter, env, api_url, store, numCalls, readyCalls, settingsChanges, envReads>>

\* Mutant: the update closure of reset leaves out cx.notify().
ResetResume_NoNotify(t) ==
    /\ tasks[t].kind = "reset"
    /\ tasks[t].pc = "responded"
    /\ state' = ResetUpdate(state)
    /\ tasks' = Finish(t, "Ok")
    /\ lastWriter' = t
    /\ UNCHANGED <<view, limiter, env, api_url, store, numCalls, readyCalls, notifications,
                   settingsChanges, envReads>>

ResetResume(t) ==
    /\ tasks[t].kind = "reset"
    /\ tasks[t].pc = "responded"
    /\ state' = ResetUpdate(state)
    /\ notifications' = notifications + 1
    /\ tasks' = Finish(t, "Ok")
    /\ lastWriter' = t
    /\ UNCHANGED <<view, limiter, env, api_url, store, numCalls, readyCalls, settingsChanges, envReads>>

\* ---------------------------------------------------------------- settings
\* The SettingsStore changes, with the endpoint URL changed or left as it
\* was: later calls capture the URL, and the State's subscription notifies
\* its observers on every change.
SettingsChanged(url) ==
    /\ settingsChanges < MaxSettingsChanges
    /\ api_url' = url
    /\ settingsChanges' = settingsChanges + 1
    /\ notifications' = notifications + 1
    /\ UNCHANGED <<view, limiter, env, state, store, tasks, numCalls, readyCalls, envReads,
                   lastWriter>>

\* ----------------------------------------------------------- specification
Next ==
    \/ AuthenticateCall
    \/ \E k \in Secrets : SetCall(k)
    \/ ResetCall
    \/ \E t \in TaskIds : AuthenticateStart(t)
    \/ \E t \in TaskIds : SetStart(t)
    \/ \E t \in TaskIds : ResetStart(t)
    \/ \E t \in TaskIds : StoreRead(t)
    \/ \E t \in TaskIds : StoreWrite(t)
    \/ \E t \in TaskIds : StoreDelete(t)
    \/ \E t \in TaskIds : StoreFail(t)
    \/ \E t \in TaskIds : AuthenticateResume(t)
    \/ \E t \in TaskIds : SetResume(t)
    \/ \E t \in TaskIds : ResetResume(t)
    \/ \E u \in Urls : SettingsChanged(u)

Spec == Init /\ [][Next]_vars

\* ------------------------------------------------------ configuration view
\* ConfigurationView::new: the editor is empty and the load task has been
\* spawned but has not run.
NewView ==
    [NoView EXCEPT !.pc = "spawned", !.load_credentials_task = Some("load")]

\* render: match (self.load_credentials_task, self.should_render_editor(cx)).
Render ==
    IF view.load_credentials_task # None THEN "loading"
    ELSE IF ~is_authenticated(state) THEN "editor"
    ELSE "settings"

\* The load task up to its await. The task of an authenticated state is
\* ready, so the await returns at once and the task runs to its end.
LoadStart ==
    /\ view.pc = "spawned"
    /\ authenticate
    /\ view' = IF is_authenticated(state)
               THEN [view EXCEPT !.pc = "loaded", !.load_credentials_task = None]
               ELSE [view EXCEPT !.pc = "awaiting", !.awaited = numCalls + 1]

\* Mutant: the task is dropped unless it succeeded (task.await.log_err()?).
LoadResume_ClearsOnSuccessOnly ==
    /\ view.pc = "awaiting"
    /\ Done(view.awaited)
    /\ view' = IF tasks[view.awaited].result = "Ok"
               THEN [view EXCEPT !.pc = "loaded", !.load_credentials_task = None]
               ELSE [view EXCEPT !.pc = "failed", !.logged = view.logged + 1]
    /\ UNCHANGED <<limiter, env, api_url, state, store, tasks, numCalls, readyCalls,
                   notifications, settingsChanges, envReads, lastWriter>>

\* let _ = task.await; the result is dropped, then the task is cleared.
LoadResume ==
    /\ view.pc = "awaiting"
    /\ Done(view.awaited)
    /\ view' = [view EXCEPT !.pc = "loaded", !.load_credentials_task = None]
    /\ UNCHANGED <<limiter, env, api_url, state, store, tasks, numCalls, readyCalls,
                   notifications, settingsChanges, envReads, lastWriter>>

\* The user edits the text of the API-key editor.
EditText(text) ==
    /\ Render = "editor"
    /\ view.text # text
    /\ view' = [view EXCEPT !.text = text]
    /\ UNCHANGED <<limiter, env, api_url, state, store, tasks, numCalls, readyCalls,
                   notifications, settingsChanges, envReads, lastWriter>>

\* Mutant: the emptiness check is left out.
save_api_key_NoEmptyCheck ==
    /\ Render = "editor"
    /\ view.confirms + view.resets < MaxViewEvents
    /\ view' = [view EXCEPT !.confirms = view.confirms + 1,
                            !.pending = Append(view.pending,
                                               [kind |-> "set", arg |-> view.text])]
    /\ UNCHANGED <<limiter, env, api_url, state, store, tasks, numCalls, readyCalls,
                   notifications, settingsChanges, envReads, lastWriter>>

\* ConfigurationView::save_api_key, the Confirm action of the editor.
save_api_key ==
    /\ Render = "editor"
    /\ view.confirms + view.resets < MaxViewEvents
    /\ view' = IF view.text = <<>>
               THEN [view EXCEPT !.confirms = view.confirms + 1]
               ELSE [view EXCEPT !.confirms = view.confirms + 1,
                                 !.pending = Append(view.pending,
                                                    [kind |-> "set", arg |-> view.text])]
    /\ UNCHANGED <<limiter, env, api_url, state, store, tasks, numCalls, readyCalls,
                   notifications, settingsChanges, envReads, lastWriter>>

\* ConfigurationView::reset_api_key, the click on "Reset key"; the button is
\* disabled when the key comes from the environment.
ViewResetApiKey ==
    /\ Render = "settings"
    /\ ~state.api_key_from_env
    /\ view.confirms + view.resets < MaxViewEvents
    /\ view' = [view EXCEPT !.resets = view.resets + 1,
                            !.text = <<>>,
                            !.pending = Append(view.pending,
                                               [kind |-> "reset", arg |-> <<>>])]
    /\ UNCHANGED <<limiter, env, api_url, state, store, tasks, numCalls, readyCalls,
                   notifications, settingsChanges, envReads, lastWriter>>

Remove(seq, i) == SubSeq(seq, 1, i - 1) \o SubSeq(seq, i + 1, Len(seq))

\* A task spawned by save_api_key or reset_api_key runs: it calls the
\* operation on the State.
ViewTaskRun(i) ==
    /\ i \in 1..Len(view.pending)
    /\ IF view.pending[i].kind = "set"
       THEN set_api_key(view.pending[i].arg)
       ELSE reset_api_key
    /\ view' = [view EXCEPT !.pending = Remove(view.pending, i)]

\* The view is opened on a state that is Unauthenticated or that the
\* provider has authenticated from the environment variable.
ViewInit ==
    /\ env \in {None, Some(K1)}
    /\ api_url = "u1"
    /\ state \in {[api_key |-> None, api_key_from_env |-> FALSE]}
                 \cup {[api_key |-> e, api_key_from_env |-> TRUE] :
                          e \in {env} \ {None}}
    /\ store \in {[u \in Urls |-> IF u = api_url THEN e ELSE None] :
                     e \in InitialEntries}
    /\ tasks = [t \in TaskIds |-> IdleTask]
    /\ numCalls = 0
    /\ readyCalls = <<>>
    /\ notifications = 0
    /\ settingsChanges = 0
    /\ envReads = 0
    /\ lastWriter = 0
    /\ view = NewView
    /\ limiter = NoLimiter

ViewNext ==
    \/ LoadStart
    \/ LoadResume
    \/ \E text \in Secrets \cup {<<>>} : EditText(text)
    \/ save_api_key
    \/ ViewResetApiKey
    \/ \E i \in 1..MaxViewEvents : ViewTaskRun(i)
    \/ \E t \in TaskIds : AuthenticateStart(t)
    \/ \E t \in TaskIds : SetStart(t)
    \/ \E t \in TaskIds : ResetStart(t)
    \/ \E t \in TaskIds : StoreRead(t)
    \/ \E t \in TaskIds : StoreWrite(t)
    \/ \E t \in TaskIds : StoreDelete(t)
    \/ \E t \in TaskIds : StoreFail(t)
    \/ \E t \in TaskIds : AuthenticateResume(t)
    \/ \E t \in TaskIds : SetResume(t)
    \/ \E t \in TaskIds : ResetResume(t)

\* The executor runs every task that is ready, and the credentials provider
\* answers every request, with a value or with an error.
ViewFairness ==
    /\ WF_vars(LoadStart)
    /\ WF_vars(LoadResume)
    /\ \A t \in TaskIds :
          /\ WF_vars(AuthenticateStart(t))
          /\ WF_vars(StoreRead(t) \/ StoreFail(t))
          /\ WF_vars(AuthenticateResume(t))

ViewSpec == ViewInit /\ [][ViewNext]_vars /\ ViewFairness

\* ------------------------------------------------------ request dispatcher
\* Callers are numbered in the order they call acquire().
NextCaller(c) ==
    /\ limiter.callers[c].pc = "idle"
    /\ \A d \in 1..(c - 1) : limiter.callers[d].pc # "idle"

\* acquire(): a free slot is granted at once, otherwise the caller joins the
\* end of the queue.
Acquire(lim, c) ==
    IF lim.in_flight < Capacity
    THEN [lim EXCEPT !.in_flight = lim.in_flight + 1,
                     !.callers[c].pc = "holding"]
    ELSE [lim EXCEPT !.waiters = Append(lim.waiters, c),
                     !.callers[c] = [pc |-> "waiting",
                                     queued |-> Len(lim.waiters) + 1]]

\* Mutant: the freed slot goes to the caller that arrived last.
GrantNext_Newest(lim) ==
    IF lim.waiters = <<>> THEN lim
    ELSE [lim EXCEPT !.in_flight = lim.in_flight + 1,
                     !.callers[lim.waiters[Len(lim.waiters)]].pc = "holding",
                     !.waiters = SubSeq(lim.waiters, 1, Len(lim.waiters) - 1)]

\* The freed slot goes to the head of the queue.
GrantNext(lim) ==
    IF lim.waiters = <<>> THEN lim
    ELSE [lim EXCEPT !.in_flight = lim.in_flight + 1,
                     !.callers[Head(lim.waiters)].pc = "holding",
                     !.waiters = Tail(lim.waiters)]

\* The permit is dropped.
Release(lim, c) ==
    GrantNext([lim EXCEPT !.in_flight = lim.in_flight - 1,
                          !.callers[c].pc = "released"])

LimiterAcquire(c) ==
    /\ ~limiter.panicked
    /\ NextCaller(c)
    /\ limiter' = Acquire(limiter, c)
    /\ UNCHANGED <<view, env, api_url, state, store, tasks, numCalls, readyCalls,
                   notifications, settingsChanges, envReads, lastWriter>>

LimiterRelease(c) ==
    /\ ~limiter.panicked
    /\ limiter.callers[c].pc = "holding"
    /\ limiter' = Release(limiter, c)
    /\ UNCHANGED <<view, env, api_url, state, store, tasks, numCalls, readyCalls,
                   notifications, settingsChanges, envReads, lastWriter>>

\* stream_completion: the body is todo!(), so the call panics before it
\* touches request_limiter or returns a stream.
StreamCompletion ==
    /\ ~limiter.panicked
    /\ limiter' = [limiter EXCEPT !.stream_calls = limiter.stream_calls + 1,
                                  !.panicked = TRUE,
                                  !.panic_in = "stream_completion"]
    /\ UNCHANGED <<view, env, api_url, state, store, tasks, numCalls, readyCalls,
                   notifications, settingsChanges, envReads, lastWriter>>

\* The body of each of these functions is todo!() as well: the call panics.
Todo(function) ==
    /\ ~limiter.panicked
    /\ limiter' = [limiter EXCEPT !.panicked = TRUE, !.panic_in = function]
    /\ UNCHANGED <<view, env, api_url, state, store, tasks, numCalls, readyCalls,
                   notifications, settingsChanges, envReads, lastWriter>>

UseAnyTool == Todo("use_any_tool")

CountTokens == Todo("count_tokens")

ProvidedModels == Todo("provided_models")

LimiterInit ==
    /\ CredentialInit
    /\ env = None
    /\ store[api_url] = None
    /\ view = NoView
    /\ limiter = NoLimiter

LimiterNext ==
    \/ \E c \in CallerIds : LimiterAcquire(c)
    \/ \E c \in CallerIds : LimiterRelease(c)
    \/ StreamCompletion
    \/ UseAnyTool
    \/ CountTokens
    \/ ProvidedModels

LimiterSpec == LimiterInit /\ [][LimiterNext]_vars

\* ------------------------------------------------------------------ claims
Completes(t) == tasks[t].pc # "done" /\ tasks'[t].pc = "done"

\* C1: an authenticate() started while Unauthenticated with the environment
\* variable present never issues a store request, completes with success,
\* and leaves the state Authenticated with the environment value and
\* api_key_from_env = true.
C1_AuthenticateFromEnvironment ==
    [][\A t \in TaskIds :
          (/\ tasks[t].kind = "authenticate"
           /\ tasks[t].pc = "spawned"
           /\ tasks'[t].pc # "spawned"
           /\ env # None)
          => /\ tasks'[t].pc = "done"
             /\ tasks'[t].result = "Ok"
             /\ tasks'[t].req = NoRequest
             /\ tasks'[t].resp = NoResponse
             /\ store' = store
             /\ state' = [api_key |-> env, api_key_from_env |-> TRUE]]_vars

C1_Witness ==
    \E t \in TaskIds :
        /\ tasks[t].kind = "authenticate"
        /\ tasks[t].pc = "done"
        /\ tasks[t].result = "Ok"
        /\ tasks[t].req = NoRequest
        /\ env = Some(K1)
        /\ state = [api_key |-> Some(K1), api_key_from_env |-> TRUE]

\* C2: authenticate() called while Authenticated returns success at once:
\* no task is spawned, the environment is not read, no store request is
\* issued, and the key and its origin are unchanged; this holds for every
\* such call, so also for two in a row.
C2_AuthenticateWhenAuthenticated ==
    [][/\ state.api_key # None =>
              \A t \in TaskIds :
                  ~(tasks[t].pc = "idle" /\ tasks'[t].kind = "authenticate")
       /\ readyCalls' # readyCalls =>
              /\ state.api_key # None
              /\ readyCalls' = Append(readyCalls, "Ok")
              /\ UNCHANGED <<view, limiter, env, api_url, state, store, tasks, numCalls,
                             notifications, envReads>>]_vars

C2_Witness ==
    /\ Len(readyCalls) = 2
    /\ numCalls = 1
    /\ Done(1)
    /\ state.api_key # None

\* C3: when set(secret) completes the active credential is
\* `secret` with origin Store (api_key_from_env = false) whatever the state
\* was before, and the request it issued is a write of the secret's bytes,
\* typed "Bearer", under the endpoint URL.
C3_SetAdoptsWithStoreOrigin ==
    [][\A t \in TaskIds :
          (tasks[t].kind = "set" /\ Completes(t))
          => /\ state' = [api_key |-> tasks[t].arg, api_key_from_env |-> FALSE]
             /\ tasks[t].req = Request("write", tasks[t].url, "Bearer",
                                       as_bytes(Unwrap(tasks[t].arg)))]_vars

\* C4: when the write issued by set(secret) fails, set still adopts the
\* secret: at its completion the state is authenticated with `secret` and
\* the task's result is Ok.
C4_SetAdoptsDespiteWriteFailure ==
    [][\A t \in TaskIds :
          (tasks[t].kind = "set" /\ Completes(t) /\ tasks[t].resp.tag = "err")
          => /\ state'.api_key = tasks[t].arg
             /\ state'.api_key # None
             /\ tasks'[t].result = "Ok"]_vars

C4_Witness ==
    \E t \in TaskIds :
        /\ tasks[t].kind = "set"
        /\ tasks[t].pc = "done"
        /\ tasks[t].resp.tag = "err"
        /\ tasks[t].result = "Ok"
        /\ state.api_key = tasks[t].arg
        /\ store[tasks[t].url] = None

\* C5: when reset() completes the state is Unauthenticated with the origin
\* flag cleared, whatever the origin was and whether or not the delete
\* succeeded; the request it issued is a delete under the endpoint URL, the
\* result is Ok, and the observers are notified (once per reset, also when
\* the state was already Unauthenticated).
C5_ResetClearsAndNotifies ==
    [][\A t \in TaskIds :
          (tasks[t].kind = "reset" /\ Completes(t))
          => /\ state' = [api_key |-> None, api_key_from_env |-> FALSE]
             /\ tasks[t].req = Request("delete", tasks[t].url, "", <<>>)
             /\ tasks[t].resp.tag \in {"ok", "err"}
             /\ tasks'[t].result = "Ok"
             /\ notifications' = notifications + 1]_vars

\* A reset whose delete failed has completed after an authenticate from the
\* environment: the state is cleared although the origin was Environment.
C5_Witness ==
    /\ numCalls = 2
    /\ tasks[1].kind = "authenticate" /\ tasks[1].result = "Ok" /\ env # None
    /\ tasks[2].kind = "reset" /\ tasks[2].pc = "done"
    /\ tasks[2].resp.tag = "err"
    /\ state = [api_key |-> None, api_key_from_env |-> FALSE]

\* C6: reset() followed by authenticate(), with the environment variable
\* absent and no entry under the endpoint URL, makes authenticate fail with
\* CredentialsNotFound, and the state is Unauthenticated afterwards.  Task t
\* follows task t-1 when every earlier task had completed at its call.
C6_ResetThenAuthenticateNotFound ==
    \A t \in 2..MaxOps :
        (/\ tasks[t - 1].kind = "reset"
         /\ tasks[t].kind = "authenticate"
         /\ tasks[t].quiet
         /\ tasks[t].pc = "done"
         /\ env = None
         /\ tasks[t].resp = [tag |-> "ok", val |-> None])
        => /\ tasks[t].result = "CredentialsNotFound"
           /\ (\A u \in (t + 1)..MaxOps : ~Done(u)) => state.api_key = None

C6_Witness ==
    \E t \in 2..MaxOps :
        /\ tasks[t - 1].kind = "reset"
        /\ tasks[t - 1].resp.tag = "ok"
        /\ tasks[t].kind = "authenticate"
        /\ tasks[t].quiet
        /\ tasks[t].pc = "done"
        /\ env = None
        /\ store[tasks[t].url] = None
        /\ tasks[t].result = "CredentialsNotFound"
        /\ state.api_key = None

\* The key an operation adopts when its update closure runs.
ResultKey(t) ==
    CASE tasks[t].kind = "reset" -> None
      [] tasks[t].kind = "set" -> tasks[t].arg
      [] tasks[t].kind = "authenticate" /\ tasks[t].req.op = "none" -> env
      [] OTHER -> from_utf8(Unwrap(tasks[t].resp.val).password)

Overlapped == \E t \in 1..numCalls : ~tasks[t].quiet

\* C7: when operations overlapped, then once all of them have
\* completed the state is the result of the one initiated last: Unauthenticated
\* after a reset, the secret of a set.
C7_LatestInitiatedWins ==
    (/\ numCalls >= 2
     /\ Overlapped
     /\ \A t \in 1..numCalls : Done(t))
    => /\ tasks[numCalls].kind = "reset" => state.api_key = None
       /\ tasks[numCalls].kind = "set" => state.api_key = tasks[numCalls].arg

\* The state is always the result of the operation whose update ran last:
\* the key changes only in the step that completes a task, and a completing
\* reset, set or successful authenticate leaves its own result in api_key,
\* whatever operations were initiated before or after it.
CompletionWritesOwnResult ==
    [][/\ \A t \in TaskIds :
              (Completes(t) /\ tasks'[t].result = "Ok")
              => state'.api_key = ResultKey(t)
       /\ state' # state =>
              \E t \in TaskIds : Completes(t) /\ tasks'[t].result = "Ok"]_vars

\* A set initiated before a reset has completed after it: the state is
\* Authenticated although the reset was initiated last.
EarlierSetCompletedLast ==
    /\ numCalls = 2
    /\ tasks[1].kind = "set" /\ Done(1)
    /\ tasks[2].kind = "reset" /\ Done(2)
    /\ ~tasks[2].quiet
    /\ lastWriter = 1
    /\ state.api_key = tasks[1].arg

\* C8: in every reachable state the origin and the secret are consistent:
\* if api_key_from_env is true the active secret is the value of the
\* environment variable, and if the active secret was supplied by set or
\* read from the store the origin is Store (api_key_from_env = false).
C8_OriginMatchesSecret ==
    /\ state.api_key_from_env => (env # None /\ state.api_key = env)
    /\ \A t \in TaskIds :
           (/\ lastWriter = t
            /\ \/ tasks[t].kind = "set"
               \/ tasks[t].kind = "authenticate" /\ tasks[t].req.op = "read")
           => ~state.api_key_from_env

\* C9: with the environment variable absent, authenticate() on an
\* Unauthenticated state issues a read under the endpoint URL and its result
\* is decided by the response: no entry -> CredentialsNotFound, bytes that
\* are not UTF-8 -> Malformed, a failed request -> StoreUnavailable,
\* otherwise Ok with the decoded key adopted with origin Store; the three
\* failures are pairwise different values and differ from Ok.
ReadOutcome(resp) ==
    CASE resp.tag = "err" -> "StoreUnavailable"
      [] resp.tag = "ok" /\ resp.val = None -> "CredentialsNotFound"
      [] resp.tag = "ok" /\ resp.val # None
            /\ from_utf8(Unwrap(resp.val).password) = None -> "Malformed"
      [] OTHER -> "Ok"

C9_AuthenticateFromStore ==
    [][\A t \in TaskIds :
          (tasks[t].kind = "authenticate" /\ env = None)
          => /\ (tasks[t].pc = "spawned" /\ tasks'[t].pc # "spawned")
                => /\ tasks'[t].pc = "awaiting"
                   /\ tasks'[t].req = Request("read", tasks[t].url, "", <<>>)
                   /\ state' = state
             /\ Completes(t)
                => /\ tasks[t].pc = "responded"
                   /\ tasks'[t].result = ReadOutcome(tasks[t].resp)
                   /\ IF tasks'[t].result = "Ok"
                      THEN state' =
                             [api_key |-> from_utf8(Unwrap(tasks[t].resp.val).password),
                              api_key_from_env |-> FALSE]
                      ELSE state' = state]_vars

\* Two authenticate() calls have failed in different ways, and a caller can
\* tell them apart.
C9_Witness ==
    /\ env = None
    /\ tasks[1].kind = "authenticate" /\ Done(1)
    /\ tasks[2].kind = "authenticate" /\ Done(2)
    /\ tasks[1].result \in {"CredentialsNotFound", "Malformed"}
    /\ tasks[2].result = "StoreUnavailable"

\* C10: a credential whose origin is Environment is never persisted: while
\* the state reports api_key_from_env = true, the operation that adopted the
\* active secret has issued no store write for it.
C10_EnvironmentKeyNeverWritten ==
    \A t \in TaskIds :
        (state.api_key_from_env /\ lastWriter = t)
        => tasks[t].req.op # "write"

\* C11: at the moment an operation signals completion (its task returns, or
\* the call returns a ready task) a read of the state returns that
\* operation's result, whole: Unauthenticated with the flag cleared after a
\* reset, the secret of the set with origin Store after a set, the resolved
\* key with its origin after a successful authenticate, and Authenticated
\* after a ready authenticate.
C11_CompletionShowsResult ==
    [][/\ \A t \in TaskIds :
              (Completes(t) /\ tasks'[t].result = "Ok")
              => CASE tasks[t].kind = "reset" ->
                         state' = [api_key |-> None, api_key_from_env |-> FALSE]
                   [] tasks[t].kind = "set" ->
                         state' = [api_key |-> tasks[t].arg,
                                   api_key_from_env |-> FALSE]
                   [] OTHER ->
                         /\ state'.api_key # None
                         /\ state' = [api_key |-> ResultKey(t),
                                      api_key_from_env |-> tasks[t].req.op = "none"]
       /\ readyCalls' # readyCalls => state'.api_key # None]_vars

Holding == {c \in CallerIds : limiter.callers[c].pc = "holding"}

\* C12: the dispatcher has capacity 4: the number of permits out is always
\* between 0 and 4 and equals the number of callers holding one; an acquire
\* made while fewer than 4 permits are out is granted at once, an acquire
\* made while 4 are out suspends, and a suspended caller gets its permit only
\* in a step in which another caller releases one.
C12_CapacityBound ==
    /\ [](/\ limiter.in_flight \in 0..4
          /\ limiter.in_flight = Cardinality(Holding))
    /\ [][\A c \in CallerIds :
            /\ (limiter.callers[c].pc = "idle" /\ limiter'.callers[c].pc # "idle")
               => limiter'.callers[c].pc =
                      IF limiter.in_flight < 4 THEN "holding" ELSE "waiting"
            /\ (limiter.callers[c].pc = "waiting" /\ limiter'.callers[c].pc # "waiting")
               => /\ limiter'.callers[c].pc = "holding"
                  /\ \E d \in CallerIds :
                        /\ limiter.callers[d].pc = "holding"
                        /\ limiter'.callers[d].pc = "released"]_vars

\* Four permits are out and a fifth caller is suspended.
C12_Witness ==
    /\ limiter.in_flight = 4
    /\ \A c \in 1..4 : limiter.callers[c].pc = "holding"
    /\ limiter.callers[5].pc = "waiting"

\* C13: suspended callers are served in arrival order: a release takes one
\* permit back and, when somebody waits, hands the slot to the caller that
\* has waited longest, so nobody is granted while an earlier arrival still
\* waits.
C13_FifoGrants ==
    [][\A c \in CallerIds :
          (limiter.callers[c].pc = "holding" /\ limiter'.callers[c].pc = "released")
          => LET w == {d \in CallerIds : limiter.callers[d].pc = "waiting"}
             IN  IF w = {}
                 THEN /\ limiter'.in_flight = limiter.in_flight - 1
                      /\ \A d \in CallerIds \ {c} :
                            limiter'.callers[d] = limiter.callers[d]
                 ELSE LET first == CHOOSE d \in w : \A e \in w : d <= e
                      IN  /\ limiter'.in_flight = limiter.in_flight
                          /\ limiter'.callers[first].pc = "holding"
                          /\ \A d \in w \ {first} :
                                limiter'.callers[d].pc = "waiting"]_vars

\* The sixth caller queued up behind the fifth; the fifth has its permit and
\* the sixth still waits.
C13_Witness ==
    /\ limiter.callers[5].queued = 1
    /\ limiter.callers[6].queued = 2
    /\ limiter.callers[5].pc = "holding"
    /\ limiter.callers[6].pc = "waiting"

\* C14: a call of stream_completion takes a dispatcher permit (or queues for
\* one) and hands back a stream that holds it until the stream is drained,
\* fails or is abandoned.
C14_StreamHoldsOnePermit ==
    [][limiter'.stream_calls = limiter.stream_calls + 1
       => /\ ~limiter'.panicked
          /\ \/ limiter'.in_flight = limiter.in_flight + 1
             \/ Len(limiter'.waiters) = Len(limiter.waiters) + 1]_vars

\* C15: the step in which an authenticate, set or reset succeeds is the step
\* that updates the state and notifies the observers once; the step in which
\* an authenticate fails changes neither the secret nor the origin and
\* notifies nobody; the state never changes without a notification.
C15_NotifyOnSuccessOnly ==
    [][/\ \A t \in TaskIds :
             Completes(t)
             => IF tasks'[t].result = "Ok"
                THEN /\ notifications' = notifications + 1
                     /\ lastWriter' = t
                ELSE /\ tasks[t].kind = "authenticate"
                     /\ tasks'[t].result \in
                            {"CredentialsNotFound", "Malformed", "StoreUnavailable"}
                     /\ state' = state
                     /\ notifications' = notifications
       /\ state' # state => notifications' = notifications + 1]_vars

\* One authenticate has failed and one reset has succeeded; the only
\* notification is the one of the reset.
C15_Witness ==
    /\ settingsChanges = 0
    /\ notifications = 1
    /\ \E t, u \in TaskIds :
          /\ Done(t) /\ tasks[t].kind = "authenticate" /\ tasks[t].result # "Ok"
          /\ Done(u) /\ tasks[u].kind = "reset" /\ tasks[u].result = "Ok"

\* C18: whatever authenticate, set and reset operations have run and however
\* they interleaved, a state whose origin flag says "environment" holds a key.
C18_EnvOriginHasKey ==
    state.api_key_from_env => state.api_key # None

\* A reset has cleared a state that an authenticate had filled from the
\* environment variable.
C18_Witness ==
    /\ state = [api_key |-> None, api_key_from_env |-> FALSE]
    /\ \E t, u \in TaskIds :
          /\ Done(t) /\ tasks[t].kind = "authenticate" /\ tasks[t].req.op = "none"
          /\ Done(u) /\ tasks[u].kind = "reset" /\ lastWriter = u

\* Only set and reset operations have been called, all of them have
\* completed, no store request failed, the environment variable is absent
\* and the endpoint URL has not changed.
SetResetQuiescent ==
    /\ env = None
    /\ settingsChanges = 0
    /\ numCalls >= 1
    /\ \A t \in 1..numCalls :
          /\ Done(t)
          /\ tasks[t].kind \in {"set", "reset"}
          /\ tasks[t].resp.tag = "ok"

StateAgreesWithStore ==
    /\ \A s \in Secrets :
          state.api_key = Some(s) <=> store[api_url] = StoredKey(as_bytes(s))
    /\ state.api_key = None => store[api_url] = None

\* C19: with the environment variable absent and no store request failing,
\* whenever no operation is in flight the state holds secret s exactly when
\* the store holds s under the endpoint URL, and an Unauthenticated state
\* has no stored entry, also when set and reset operations overlapped.
C19_QuiescentStateAgreesWithStore ==
    SetResetQuiescent => StateAgreesWithStore

\* When no operation was called while another was in flight, the state and
\* the store agree.
SequentialStateAgreesWithStore ==
    (SetResetQuiescent /\ \A t \in 1..numCalls : tasks[t].quiet)
    => StateAgreesWithStore

SequentialSetThenReset ==
    /\ SetResetQuiescent
    /\ numCalls = 2
    /\ tasks[1].kind = "set" /\ tasks[2].kind = "reset"
    /\ tasks[1].quiet /\ tasks[2].quiet

\* The authenticate() calls made so far, ready ones included.
AuthenticateCalls ==
    Cardinality({t \in TaskIds : tasks[t].kind = "authenticate"}) + Len(readyCalls)

\* C16: the view starts out showing "Loading credentials..."; its load task
\* calls authenticate() once; when the store answers, the loading state is
\* cleared for good, whether the authenticate succeeded or failed; once it is
\* cleared the view shows the editor exactly when the state is
\* Unauthenticated and the settings panel exactly when it is Authenticated;
\* the view logs no error for a failed authenticate.
C16_ViewLoadsThenShowsState ==
    /\ Render = "loading"
    /\ [](AuthenticateCalls = IF view.pc = "spawned" THEN 0 ELSE 1)
    /\ <>[](view.load_credentials_task = None)
    /\ [](view.load_credentials_task = None
          => /\ Render = "editor" <=> state.api_key = None
             /\ Render = "settings" <=> state.api_key # None)
    /\ [](view.logged = 0)

\* The authenticate of the load task found no stored key; loading is over
\* and the editor is shown.
C16_Witness ==
    /\ view.pc = "loaded"
    /\ view.awaited # 0
    /\ tasks[view.awaited].result = "CredentialsNotFound"
    /\ Render = "editor"

PendingSets == {i \in 1..Len(view.pending) : view.pending[i].kind = "set"}

SetTasks == {t \in TaskIds : tasks[t].kind = "set"}

\* C17: a Confirm with an empty editor changes nothing: no task is queued,
\* no operation is started, no store request is issued, and state and store
\* stay as they are. A Confirm with text queues one task for set(text) and
\* nothing else; a queued task starts exactly one set with its text; no set
\* starts without a Confirm.
C17_ConfirmStartsOneSet ==
    /\ [](Cardinality(SetTasks) + Cardinality(PendingSets) <= view.confirms)
    /\ [][/\ view'.confirms # view.confirms
             => /\ view'.confirms = view.confirms + 1
                /\ UNCHANGED <<state, store, tasks, numCalls, notifications>>
                /\ view'.pending =
                       IF view.text = <<>> THEN view.pending
                       ELSE Append(view.pending, [kind |-> "set", arg |-> view.text])
          /\ Cardinality(SetTasks') # Cardinality(SetTasks)
             => /\ Len(view'.pending) = Len(view.pending) - 1
                /\ numCalls' = numCalls + 1
                /\ \E i \in PendingSets :
                      /\ view'.pending = Remove(view.pending, i)
                      /\ view.pending[i].arg # <<>>
                      /\ tasks'[numCalls'].arg = Some(view.pending[i].arg)
                /\ UNCHANGED <<state, store>>]_vars

\* Two Confirms were made, one of them with an empty editor: one set has
\* been started, and it has written its key.
C17_Witness ==
    /\ view.confirms = 2
    /\ view.pending = <<>>
    /\ \E t \in TaskIds :
          /\ SetTasks = {t}
          /\ Done(t)
          /\ state.api_key = tasks[t].arg

====
